---------------------------- MODULE Spec2Model ----------------------------
(***************************************************************************)
(* Model of the image-to-georeferenced-detections pipeline of              *)
(* pokok_kuning_gui/core/processor.py (class ImageProcessor).              *)
(*                                                                         *)
(* Numbers.  Python floats are modelled in fixed point with two units per  *)
(* 1 (Fx(1) = 2), so that the half pixels of a bounding-box midpoint are   *)
(* representable.  Pixel corners and world-file parameters range over      *)
(* small sets.                                                             *)
(*                                                                         *)
(* Files.  A disk is a function from paths to contents; a path is a record *)
(* [stem, kind, n]: <stem>.geojson is [stem, "geojson", 0],                 *)
(* <stem>_<n>.geojson is [stem, "geojson", n], <stem>_temp_rgb.jpg is      *)
(* [stem, "temp", 0].                                                      *)
(*                                                                         *)
(* Library calls (PIL, the detection model, os, geojson) are not code of   *)
(* the repository: each is a choice over the outcomes the call can have,   *)
(* passed to the operators below as an explicit argument.                  *)
(*                                                                         *)
(* Front ends.  The later sections model what drives the pipeline: the     *)
(* command line of core/cli.py, the standalone script src/main.py, the     *)
(* legacy GUI src/app.py with src/feature_convert_shp.py, and              *)
(* ProcessingThread and MainWindow of ui/main_window.py.                   *)
(***************************************************************************)
EXTENDS Integers, Sequences, FiniteSets, TLC

VARIABLES
    \* ---- one call of a single method (the unit specifications)
    call,       \* the last call made: its name and its arguments
    ret,        \* what that call returned
    trace,      \* what the earlier calls of the run returned
    \* ---- the folder, shared by every specification
    disk,       \* path -> content, for the files the pipeline writes or deletes
    \* ---- process_folder (specification Spec)
    pc,                     \* position inside process_folder
    config,                 \* the config mapping of the batch (self.config)
    model,                  \* self.model: None until the model is loaded
    progress_callback,      \* None or "callback"
    total_files,            \* len(image_files)
    index,                  \* enumerate index of the current file
    successful_processed,
    failed_processed,
    total_abnormal,
    total_normal,
    cur,                    \* locals of the current iteration
    cbLog,                  \* the progress records handed to the callback
    visited,                \* the enumerate indexes the loop body was entered with
    result,                 \* the returned dictionary, or how the call ended
    gui,                    \* ProcessingThread and the widgets of MainWindow
    threads                 \* the save_geojson calls of concurrent invocations

unitVars  == <<call, ret, trace>>
batchVars == <<pc, config, model, progress_callback, total_files, index,
               successful_processed, failed_processed, total_abnormal,
               total_normal, cur, cbLog, visited, result>>
guiVars   == <<gui, threads>>
vars == <<call, ret, trace, disk, pc, config, model, progress_callback, total_files,
          index, successful_processed, failed_processed, total_abnormal,
          total_normal, cur, cbLog, visited, result, gui, threads>>

\* Python's None, and a value that is not None.
None == [isNone |-> TRUE]

Some(v) == [isNone |-> FALSE, val |-> v]

\* How a call that may raise ends: with a value, or with an exception.
Returned(v) == [raised |-> "no", val |-> v]

Raised(kind) == [raised |-> kind]

-----------------------------------------------------------------------------
(* Fixed-point numbers: two units per 1. *)

Fx(n) == 2 * n

FxMul(a, b) == (a * b) \div 2

FxHalf(a) == a \div 2

-----------------------------------------------------------------------------
(* Paths and the disk. *)

GeojsonPath(stem, n) == [stem |-> stem, kind |-> "geojson", n |-> n]

TempPath(stem) == [stem |-> stem, kind |-> "temp", n |-> 0]

Exists(d, path) == path \in DOMAIN d

WriteFile(d, path, content) ==
    [p \in DOMAIN d \cup {path} |-> IF p = path THEN content ELSE d[p]]

RemoveFile(d, path) == [p \in DOMAIN d \ {path} |-> d[p]]

EmptyDisk == [p \in {} |-> None]

\* What a file holds: who wrote it, whether the write completed, the features.
Content(by, state, features) == [by |-> by, state |-> state, features |-> features]

OldFile == Content("earlier", "complete", <<>>)

-----------------------------------------------------------------------------
(* read_jgw: the world file. *)

\* str.strip() on the lines the world files of the model hold.
Strip(text) ==
    CASE text = " -1 \n" -> "-1"
      [] text = "0.5\n"  -> "0.5"
      [] text = "abc\n"  -> "abc"
      [] text = "\n"     -> ""
      [] OTHER           -> text

\* float() on a stripped line.
ParseFloat(tok) ==
    CASE tok = "-1"  -> Returned(0 - Fx(1))
      [] tok = "0.5" -> Returned(FxHalf(Fx(1)))
      [] OTHER       -> Raised("ValueError")

\* read_jgw(jgw_file): tfw is None when there is no such file, else Some(lines).
ReadJgw(tfw) ==
    IF tfw = None
    THEN None                                   \* FileNotFoundError
    ELSE LET params == tfw.val
             parsed == [i \in 1..Len(params) |-> ParseFloat(Strip(params[i]))]
         IN  IF \E i \in 1..Len(params) : parsed[i].raised # "no"
             THEN None                          \* except Exception
             ELSE Some([i \in 1..Len(params) |-> parsed[i].val])

-----------------------------------------------------------------------------
(* image_to_map_coords and create_geojson. *)

\* image_to_map_coords with the rotation terms' slip: map_y scaled by pixel_size_x.
ImageToMapCoordsOneScale(x, y, pixel_size_x, pixel_size_y, upper_left_x, upper_left_y) ==
    <<upper_left_x + FxMul(x, pixel_size_x), upper_left_y + FxMul(y, pixel_size_x)>>

ImageToMapCoords(x, y, pixel_size_x, pixel_size_y, upper_left_x, upper_left_y) ==
    LET map_x == upper_left_x + FxMul(x, pixel_size_x)
        map_y == upper_left_y + FxMul(y, pixel_size_y)
    IN  <<map_x, map_y>>

\* labels.get(class_id, f"class_{class_id}")
LabelOf(labels, class_id) ==
    IF class_id \in DOMAIN labels THEN labels[class_id]
    ELSE "class_" \o ToString(class_id)

\* The body of the try of lines 547-564 for one detection: the feature, or the
\* exception that makes the loop skip it.
FeatureOf(detection, jgw_params, labels) ==
    IF detection.xyxy = None
    THEN Raised("Exception")
    ELSE LET pixel_size_x == jgw_params[1]
             pixel_size_y == jgw_params[4]
             upper_left_x == jgw_params[5]
             upper_left_y == jgw_params[6]
             x1 == detection.xyxy.val[1]
             y1 == detection.xyxy.val[2]
             x2 == detection.xyxy.val[3]
             y2 == detection.xyxy.val[4]
             center_x == FxHalf(x1 + x2)
             center_y == FxHalf(y1 + y2)
             map == ImageToMapCoords(center_x, center_y, pixel_size_x,
                                     pixel_size_y, upper_left_x, upper_left_y)
             class_id == detection.cls
         IN  Returned([geometry   |-> [type |-> "Point", coordinates |-> map],
                       properties |-> [label      |-> LabelOf(labels, class_id),
                                       confidence |-> detection.conf,
                                       class_id   |-> class_id]])

\* The detection loop with "break" in place of "continue" in the except clause.
RECURSIVE FeaturesOfBoxesBreak(_, _, _)
FeaturesOfBoxesBreak(boxes, jgw_params, labels) ==
    IF boxes = <<>> THEN <<>>
    ELSE LET f == FeatureOf(Head(boxes), jgw_params, labels)
         IN  IF f.raised = "no"
             THEN <<f.val>> \o FeaturesOfBoxesBreak(Tail(boxes), jgw_params, labels)
             ELSE <<>>

RECURSIVE FeaturesOfBoxes(_, _, _)
FeaturesOfBoxes(boxes, jgw_params, labels) ==
    IF boxes = <<>> THEN <<>>
    ELSE LET f == FeatureOf(Head(boxes), jgw_params, labels)
         IN  (IF f.raised = "no" THEN <<f.val>> ELSE <<>>)
             \o FeaturesOfBoxes(Tail(boxes), jgw_params, labels)

RECURSIVE FeaturesOfResults(_, _, _)
FeaturesOfResults(results, jgw_params, labels) ==
    IF results = <<>> THEN <<>>
    ELSE (IF Head(results).boxes = None THEN <<>>
          ELSE FeaturesOfBoxes(Head(results).boxes.val, jgw_params, labels))
         \o FeaturesOfResults(Tail(results), jgw_params, labels)

FeatureCollection(features) == [type |-> "FeatureCollection", features |-> features]

\* create_geojson with the unpacking of line 541 ahead of the None test.
CreateGeojsonUnpackFirst(detected_objects, jgw_params, labels) ==
    IF jgw_params = None
    THEN Raised("TypeError")
    ELSE IF Len(jgw_params.val) # 6
    THEN Raised("ValueError")
    ELSE IF detected_objects = None
    THEN Returned(FeatureCollection(<<>>))
    ELSE Returned(FeatureCollection(
             FeaturesOfResults(detected_objects.val, jgw_params.val, labels)))

\* create_geojson(detected_objects, jgw_params, labels): the collection, or the
\* ValueError of the six-name unpacking of line 541.
CreateGeojson(detected_objects, jgw_params, labels) ==
    IF detected_objects = None \/ jgw_params = None
    THEN Returned(FeatureCollection(<<>>))
    ELSE IF Len(jgw_params.val) # 6
    THEN Raised("ValueError")
    ELSE Returned(FeatureCollection(
             FeaturesOfResults(detected_objects.val, jgw_params.val, labels)))

-----------------------------------------------------------------------------
(* save_geojson. *)

\* The while loop of lines 575-578: output_path is the path to try, counter the
\* suffix of the next one.
\* save_geojson without the collision loop.
FreeOutputPathNoLoop(d, base_name, output_path, counter) == output_path

RECURSIVE FreeOutputPath(_, _, _, _)
FreeOutputPath(d, base_name, output_path, counter) ==
    IF Exists(d, output_path)
    THEN FreeOutputPath(d, base_name, GeojsonPath(base_name, counter), counter + 1)
    ELSE output_path

\* save_geojson(feature_collection, input_image_path); io is how open() and
\* geojson.dump() end: "ok", "open_fails" (no file is made), "dump_fails" (the
\* file was opened for writing and holds a partial dump).
SaveGeojson(d, feature_collection, base_name, io) ==
    LET output_path == FreeOutputPath(d, base_name, GeojsonPath(base_name, 0), 1)
    IN  CASE io = "ok" ->
               [path |-> output_path,
                disk |-> WriteFile(d, output_path,
                           Content("save_geojson", "complete",
                                   feature_collection.features))]
          [] io = "dump_fails" ->
               [path |-> None,
                disk |-> WriteFile(d, output_path,
                           Content("save_geojson", "partial", <<>>))]
          [] OTHER ->
               [path |-> None, disk |-> d]

-----------------------------------------------------------------------------
(* validate_and_preprocess_image, save_annotated_frame and detect_objects. *)

\* <annotated_folder>/<stem>_annotated.jpg and <stem>_annotated_<n>.jpg
AnnotatedPath(annotated_folder, stem, n) ==
    [folder |-> annotated_folder, stem |-> stem, kind |-> "annotated", n |-> n]

\* The if/elif chain of lines 291-302: the mode of img after it.
ConvertedMode(mode) ==
    IF mode \in {"RGBA", "LA"} THEN "RGB"
    ELSE IF mode \in {"L", "P"} THEN "RGB"
    ELSE IF mode = "CMYK" THEN "RGB"
    ELSE IF mode # "RGB" THEN "RGB"
    ELSE mode

\* validate_and_preprocess_image that writes the copy for an RGB image too.
ValidateAndPreprocessImageAlwaysCopy(d, image, base_name, saveIo) ==
    IF image.readable /\ saveIo = "ok"
    THEN [out  |-> [ok |-> TRUE, width |-> image.width, height |-> image.height,
                    mode |-> Some(ConvertedMode(image.mode)),
                    temp_path |-> TempPath(base_name)],
          disk |-> WriteFile(d, TempPath(base_name),
                             Content("normalizer", "complete", <<>>))]
    ELSE [out  |-> [ok |-> FALSE, width |-> 0, height |-> 0, mode |-> None,
                    temp_path |-> None],
          disk |-> d]

\* validate_and_preprocess_image(image_path).  image.readable is whether PIL
\* opens and decodes the file.  saveIo is how img.save(temp_path) ends: "ok",
\* "save_fails" (raises and leaves the disk as it was) or "save_fails_partial"
\* (raises after the file was opened for writing, which stays behind).
ValidateAndPreprocessImage(d, image, base_name, saveIo) ==
    LET failure == [ok |-> FALSE, width |-> 0, height |-> 0, mode |-> None,
                    temp_path |-> None]
    IN  IF ~image.readable
        THEN [out |-> failure, disk |-> d]
        ELSE IF image.mode = "RGB"
        THEN [out  |-> [ok |-> TRUE, width |-> image.width, height |-> image.height,
                        mode |-> Some(ConvertedMode(image.mode)), temp_path |-> None],
              disk |-> d]
        ELSE LET temp_path == TempPath(base_name)
             IN  CASE saveIo = "ok" ->
                        [out  |-> [ok |-> TRUE, width |-> image.width,
                                   height |-> image.height,
                                   mode |-> Some(ConvertedMode(image.mode)),
                                   temp_path |-> temp_path],
                         disk |-> WriteFile(d, temp_path,
                                    Content("normalizer", "complete", <<>>))]
                   [] saveIo = "save_fails_partial" ->
                        [out  |-> failure,
                         disk |-> WriteFile(d, temp_path,
                                    Content("normalizer", "partial", <<>>))]
                   [] OTHER ->
                        [out |-> failure, disk |-> d]

\* The while loop of lines 504-507.
RECURSIVE FreeAnnotatedPath(_, _, _, _, _)
FreeAnnotatedPath(d, annotated_folder, base_name, output_path, counter) ==
    IF Exists(d, output_path)
    THEN FreeAnnotatedPath(d, annotated_folder, base_name,
                           AnnotatedPath(annotated_folder, base_name, counter),
                           counter + 1)
    ELSE output_path

\* save_annotated_frame: io is "ok", or any way cv2 fails ("imread_none",
\* "imwrite_false", "raises"); nothing is raised to the caller.
SaveAnnotatedFrame(d, annotated_folder, base_name, io) ==
    IF io = "ok"
    THEN WriteFile(d, FreeAnnotatedPath(d, annotated_folder, base_name,
                                        AnnotatedPath(annotated_folder, base_name, 0), 1),
                   Content("save_annotated_frame", "complete", <<>>))
    ELSE d

\* The counting loop with "else" in place of "elif class_id == 1".
CountBoxesElse(boxes, class_id) ==
    IF class_id = 1
    THEN Cardinality({i \in 1..Len(boxes) : boxes[i].cls # 0})
    ELSE Cardinality({i \in 1..Len(boxes) : boxes[i].cls = class_id})

RECURSIVE CountBoxes(_, _)
CountBoxes(boxes, class_id) ==
    IF boxes = <<>> THEN 0
    ELSE (IF Head(boxes).cls = class_id THEN 1 ELSE 0) + CountBoxes(Tail(boxes), class_id)

\* The loops of lines 363-370, for one class id.
RECURSIVE CountResults(_, _)
CountResults(results, class_id) ==
    IF results = <<>> THEN 0
    ELSE (IF Head(results).boxes = None THEN 0
          ELSE CountBoxes(Head(results).boxes.val, class_id))
         + CountResults(Tail(results), class_id)

\* The finally clause of lines 400-406; removeIo is how os.remove ends.
CleanupTemp(d, temp_image_path, removeIo) ==
    IF temp_image_path # None /\ Exists(d, temp_image_path)
    THEN IF removeIo = "ok" THEN RemoveFile(d, temp_image_path) ELSE d
    ELSE d

\* detect_objects without its except clause: the exception of the detector
\* comes back to the caller.
DetectObjectsNoExcept(d, base_name, image, save_annotated, annotated_folder, env) ==
    LET v == ValidateAndPreprocessImage(d, image, base_name, env.saveIo)
    IN  [results |-> IF ~v.out.ok THEN None
                     ELSE IF env.predict.raised # "no" THEN env.predict
                     ELSE Some(env.predict.val),
         counts  |-> [abnormal_count |-> 0, normal_count |-> 0],
         disk    |-> CleanupTemp(v.disk, v.out.temp_path, env.removeIo)]

\* detect_objects(image_path, imgsz, conf, iou, save_annotated, annotated_folder).
\* env holds the outcomes of the library calls: saveIo (img.save), predict
\* (Raised(kind), or Returned(results)), annotIo (cv2), removeIo (os.remove).
DetectObjects(d, base_name, image, save_annotated, annotated_folder, env) ==
    LET temp_image_path0 == None
        v == ValidateAndPreprocessImage(d, image, base_name, env.saveIo)
    IN  IF ~v.out.ok
        THEN [results |-> None,
              counts  |-> [abnormal_count |-> 0, normal_count |-> 0,
                           error |-> "Invalid image"],
              disk    |-> CleanupTemp(v.disk, temp_image_path0, env.removeIo)]
        ELSE LET temp_image_path == v.out.temp_path
                 body ==
                   IF env.predict.raised # "no"
                   THEN [results |-> None,
                         counts  |-> [abnormal_count |-> 0, normal_count |-> 0,
                                      error |-> env.predict.raised],
                         disk    |-> v.disk]
                   ELSE LET results == env.predict.val
                        IN  [results |-> Some(results),
                             counts  |-> [abnormal_count |-> CountResults(results, 0),
                                          normal_count   |-> CountResults(results, 1),
                                          image_size |-> ToString(v.out.width) \o "x"
                                                        \o ToString(v.out.height),
                                          image_mode |-> v.out.mode,
                                          converted  |-> v.out.temp_path # None],
                             disk    |-> IF save_annotated /\ annotated_folder # None
                                            /\ results # <<>>
                                         THEN SaveAnnotatedFrame(v.disk,
                                                  annotated_folder.val, base_name,
                                                  env.annotIo)
                                         ELSE v.disk]
             IN  [body EXCEPT !.disk = CleanupTemp(body.disk, temp_image_path,
                                                   env.removeIo)]

-----------------------------------------------------------------------------
(* Bounds of the model, and the inputs the specifications draw from. *)

MaxSuffix == 2      \* earlier outputs <stem>.geojson .. <stem>_<MaxSuffix>.geojson
MaxSaves  == 3      \* successive save_geojson calls of one run
MaxLines  == 7      \* lines of a world file
MaxPix    == 1      \* pixel corners range over 0..MaxPix
MaxDet    == 4      \* detections of one image
MaxFiles  == 3      \* image files of a folder

NoCall == [op |-> "none"]

\* The variables of process_folder, while no batch runs.
IdleBatch ==
    /\ pc = "idle"
    /\ config = [k \in {} |-> ""]
    /\ model = None
    /\ progress_callback = None
    /\ total_files = 0
    /\ index = 0
    /\ successful_processed = 0
    /\ failed_processed = 0
    /\ total_abnormal = 0
    /\ total_normal = 0
    /\ cur = None
    /\ cbLog = <<>>
    /\ visited = <<>>
    /\ result = None

\* The variables of the unit specifications, while process_folder runs.
IdleUnit == call = NoCall /\ ret = None /\ trace = <<>>

\* The variables of the window and of its threads, while no window is open.
IdleGui == gui = None /\ threads = <<>>

SeqsUpTo(S, n) == UNION {[1..k -> S] : k \in 0..n}

\* model.names of the detection model.
ModelNames == [id \in {0, 1} |-> IF id = 0 THEN "abnormal" ELSE "normal"]

ClassIds == {0, 1, 2}

Stem == "tile"

-----------------------------------------------------------------------------
(* SpecSave: successive save_geojson calls for one image stem. *)

SampleCollections == {FeatureCollection(<<>>),
                      FeatureCollection(<<[geometry   |-> [type |-> "Point",
                                                           coordinates |-> <<0, 0>>],
                                           properties |-> [label |-> "abnormal",
                                                           confidence |-> 1,
                                                           class_id |-> 0]]>>)}

SaveIo == {"ok", "open_fails", "dump_fails"}

\* The folders a run starts with: any set of earlier outputs of the stem.
SaveDisks ==
    {[p \in {GeojsonPath(Stem, n) : n \in S} |-> OldFile] : S \in SUBSET (0..MaxSuffix)}

InitSave ==
    /\ IdleUnit
    /\ IdleGui
    /\ disk \in SaveDisks
    /\ IdleBatch

CallSaveGeojson ==
    /\ Len(trace) < MaxSaves
    /\ \E fc \in SampleCollections, io \in SaveIo :
         LET r == SaveGeojson(disk, fc, Stem, io)
         IN  /\ call' = [op |-> "save_geojson", disk |-> disk, fc |-> fc, io |-> io]
             /\ ret' = r.path
             /\ disk' = r.disk
             /\ trace' = Append(trace, r.path)
    /\ UNCHANGED batchVars
    /\ UNCHANGED guiVars

NextSave == CallSaveGeojson

SpecSave == InitSave /\ [][NextSave]_vars

-----------------------------------------------------------------------------
(* SpecJgw: one read_jgw call on any world file. *)

JgwLines == {" -1 \n", "0.5\n", "abc\n", "\n"}

WorldFiles == {None} \cup {Some(lines) : lines \in SeqsUpTo(JgwLines, MaxLines)}

InitJgw ==
    /\ IdleUnit
    /\ IdleGui
    /\ disk = EmptyDisk
    /\ IdleBatch

CallReadJgw ==
    /\ call = NoCall
    /\ \E tfw \in WorldFiles :
         /\ call' = [op |-> "read_jgw", tfw |-> tfw]
         /\ ret' = ReadJgw(tfw)
    /\ UNCHANGED <<trace, disk>>
    /\ UNCHANGED batchVars
    /\ UNCHANGED guiVars

NextJgw == CallReadJgw

SpecJgw == InitJgw /\ [][NextJgw]_vars

-----------------------------------------------------------------------------
(* SpecGeo: one image_to_map_coords or create_geojson call. *)

ParamVals == {-1, 2, 3}

InitGeo ==
    /\ IdleUnit
    /\ IdleGui
    /\ disk = EmptyDisk
    /\ IdleBatch

\* x and y are given in half pixels, the other arguments in whole units.
CallImageToMapCoords ==
    /\ call = NoCall
    /\ \E x, y \in 0..Fx(MaxPix), sx, sy, ox, oy \in ParamVals :
         /\ call' = [op |-> "image_to_map_coords", x |-> x, y |-> y,
                     sx |-> sx, sy |-> sy, ox |-> ox, oy |-> oy]
         /\ ret' = ImageToMapCoords(x, y, Fx(sx), Fx(sy), Fx(ox), Fx(oy))
    /\ UNCHANGED <<trace, disk>>
    /\ UNCHANGED batchVars
    /\ UNCHANGED guiVars

\* One detection with the corners x1, y1, x2, y2 and a six-line world file.
CallCreateGeojson ==
    /\ call = NoCall
    /\ \E x1, y1, x2, y2 \in 0..MaxPix, params \in [1..6 -> ParamVals],
          class_id \in ClassIds :
         LET detection == [xyxy |-> Some(<<Fx(x1), Fx(y1), Fx(x2), Fx(y2)>>),
                           cls |-> class_id, conf |-> 1]
             detected_objects == Some(<<[boxes |-> Some(<<detection>>)]>>)
             jgw_params == Some([i \in 1..6 |-> Fx(params[i])])
         IN  /\ call' = [op |-> "create_geojson", xyxy |-> <<x1, y1, x2, y2>>,
                         params |-> params, class_id |-> class_id]
             /\ ret' = CreateGeojson(detected_objects, jgw_params, ModelNames)
    /\ UNCHANGED <<trace, disk>>
    /\ UNCHANGED batchVars
    /\ UNCHANGED guiVars

\* The detections create_geojson meets: well-formed ones of a known or an
\* unknown class, and malformed ones (no coordinate data).
DetectionKinds == {"abnormal", "normal", "other", "malformed"}

\* The detection of kind k at position i of the list: its corners and its
\* confidence depend on i, so that the order of the features shows.
DetectionOfKind(k, i) ==
    [xyxy |-> IF k = "malformed" THEN None ELSE Some(<<0, 0, Fx(i), Fx(1)>>),
     cls  |-> CASE k = "abnormal" -> 0 [] k = "normal" -> 1 [] OTHER -> 2,
     conf |-> i]

SampleTransforms ==
    {None,
     Some(<<Fx(2), Fx(3), Fx(-1), Fx(-1), Fx(3), Fx(2)>>),
     Some(<<Fx(2), Fx(3), Fx(-1), Fx(-1), Fx(3)>>)}

\* create_geojson on None or on a list of results holding any detections, and
\* on None or a transform.  The detections are spread over two results, with
\* a result without boxes between them.
CallCreateGeojsonMany ==
    /\ call = NoCall
    /\ \E ks \in SeqsUpTo(DetectionKinds, MaxDet), isNone, split \in BOOLEAN,
          jgw_params \in SampleTransforms :
         LET boxes == [i \in 1..Len(ks) |-> DetectionOfKind(ks[i], i)]
             h == IF split THEN Len(ks) \div 2 ELSE Len(ks)
             detected_objects ==
                 IF isNone THEN None
                 ELSE Some(<<[boxes |-> Some(SubSeq(boxes, 1, h))],
                             [boxes |-> None],
                             [boxes |-> Some(SubSeq(boxes, h + 1, Len(ks)))]>>)
         IN  /\ isNone => (ks = <<>> /\ ~split)
             /\ call' = [op |-> "create_geojson_many", isNone |-> isNone,
                         boxes |-> boxes, jgw_params |-> jgw_params]
             /\ ret' = CreateGeojson(detected_objects, jgw_params, ModelNames)
    /\ UNCHANGED <<trace, disk>>
    /\ UNCHANGED batchVars
    /\ UNCHANGED guiVars

NextGeo == CallImageToMapCoords \/ CallCreateGeojson \/ CallCreateGeojsonMany

SpecGeo == InitGeo /\ [][NextGeo]_vars

-----------------------------------------------------------------------------
(* SpecDetect: one validate_and_preprocess_image or detect_objects call. *)

Modes == {"RGB", "RGBA", "LA", "L", "P", "CMYK", "I"}

Unreadable == [readable |-> FALSE, mode |-> "", width |-> 0, height |-> 0]

ImageOfMode(m) == [readable |-> TRUE, mode |-> m, width |-> 4, height |-> 3]

\* The detections of one image with the class ids cs, in order.
BoxesOf(cs) ==
    [i \in 1..Len(cs) |-> [xyxy |-> Some(<<0, 0, Fx(1), Fx(1)>>),
                           cls |-> cs[i], conf |-> 1]]

\* What model.predict returns for one source: a list with one result.
ResultLists ==
    {<<>>, <<[boxes |-> None]>>}
    \cup {<<[boxes |-> Some(BoxesOf(cs))]>> : cs \in SeqsUpTo(ClassIds, MaxDet)}

PredictOutcomes == {Raised("RuntimeError")} \cup {Returned(r) : r \in ResultLists}

NormalizerIo == {"ok", "save_fails", "save_fails_partial"}

DetectEnvs ==
    [saveIo : NormalizerIo, predict : PredictOutcomes,
     annotIo : {"ok", "raises"}, removeIo : {"ok", "remove_fails"}]

\* The folder before the call: empty, or holding a <stem>_temp_rgb.jpg already.
DetectDisks == {EmptyDisk, [p \in {TempPath(Stem)} |-> OldFile]}

InitDetect ==
    /\ IdleUnit
    /\ IdleGui
    /\ disk \in DetectDisks
    /\ IdleBatch

CallValidateAndPreprocessImage ==
    /\ call = NoCall
    /\ \E image \in {Unreadable} \cup {ImageOfMode(m) : m \in Modes},
          saveIo \in NormalizerIo :
         LET v == ValidateAndPreprocessImage(disk, image, Stem, saveIo)
         IN  /\ call' = [op |-> "validate_and_preprocess_image", disk |-> disk,
                         image |-> image, saveIo |-> saveIo]
             /\ ret' = v.out
             /\ disk' = v.disk
    /\ UNCHANGED trace
    /\ UNCHANGED batchVars
    /\ UNCHANGED guiVars

CallDetectObjects ==
    /\ call = NoCall
    /\ \E image \in {Unreadable, ImageOfMode("RGB"), ImageOfMode("L")},
          env \in DetectEnvs, save_annotated \in BOOLEAN :
         LET annotated_folder == IF save_annotated THEN Some("annotated") ELSE None
             r == DetectObjects(disk, Stem, image, save_annotated,
                                annotated_folder, env)
         IN  /\ call' = [op |-> "detect_objects", disk |-> disk, image |-> image,
                         save_annotated |-> save_annotated, env |-> env]
             /\ ret' = [results |-> r.results, counts |-> r.counts]
             /\ disk' = r.disk
    /\ UNCHANGED trace
    /\ UNCHANGED batchVars
    /\ UNCHANGED guiVars

NextDetect == CallValidateAndPreprocessImage \/ CallDetectObjects

SpecDetect == InitDetect /\ [][NextDetect]_vars

-----------------------------------------------------------------------------
(* Properties of save_geojson, read_jgw, image_to_map_coords, create_geojson. *)

\* C6: save_geojson never writes to a path that already exists: every file
\* that was there before the call is there after it with the same content; the
\* path it returns was free, is <stem>.geojson or <stem>_<N>.geojson with every
\* smaller name taken, and holds the collection; the paths returned in one run
\* are distinct, and k successful saves into a folder with no earlier output
\* leave exactly <stem>.geojson, <stem>_1.geojson, ..., <stem>_<k-1>.geojson.
SaveGeojsonNeverOverwrites ==
    call.op = "save_geojson" =>
      /\ \A p \in DOMAIN call.disk : Exists(disk, p) /\ disk[p] = call.disk[p]
      /\ ret # None =>
           /\ ~Exists(call.disk, ret)
           /\ ret.stem = Stem /\ ret.kind = "geojson" /\ ret.n >= 0
           /\ \A m \in 0..(ret.n - 1) : Exists(call.disk, GeojsonPath(Stem, m))
           /\ disk[ret] = Content("save_geojson", "complete", call.fc.features)
      /\ \A i, j \in 1..Len(trace) :
           i < j /\ trace[i] # None /\ trace[j] # None => trace[i] # trace[j]
      /\ ( /\ \A i \in 1..Len(trace) : trace[i] # None
           /\ \A p \in DOMAIN disk : disk[p].by = "save_geojson" )
         => /\ \A i \in 1..Len(trace) : trace[i] = GeojsonPath(Stem, i - 1)
            /\ DOMAIN disk = {GeojsonPath(Stem, i - 1) : i \in 1..Len(trace)}

\* Three successive saves into a folder without earlier outputs: the third
\* went to <stem>_2.geojson.
SaveGeojsonThreeSaves ==
    /\ call.op = "save_geojson"
    /\ Len(trace) = 3
    /\ \A p \in DOMAIN disk : disk[p].by = "save_geojson"
    /\ ret = GeojsonPath(Stem, 2)

\* C8: image_to_map_coords(x, y, sx, sy, ox, oy) is (ox + x*sx, oy + y*sy), and
\* the point create_geojson emits for a detection is that function at the
\* midpoint ((x1+x2)/2, (y1+y2)/2) with the 1st, 4th, 5th and 6th world-file
\* parameters; the 2nd and 3rd parameters do not enter.  (Fixed point: the
\* results are in half units, so twice the real value.)
MapCoordsAffine ==
    /\ call.op = "image_to_map_coords" =>
         ret = <<2 * call.ox + call.x * call.sx, 2 * call.oy + call.y * call.sy>>
    /\ call.op = "create_geojson" =>
         /\ ret.raised = "no"
         /\ Len(ret.val.features) = 1
         /\ ret.val.features[1].geometry.coordinates =
              <<2 * call.params[5] + (call.xyxy[1] + call.xyxy[3]) * call.params[1],
                2 * call.params[6] + (call.xyxy[2] + call.xyxy[4]) * call.params[4]>>

\* A detection whose midpoint lies on a half pixel, under a world file whose
\* rotation terms differ from its pixel sizes, has been geocoded.
MapCoordsHalfPixel ==
    /\ call.op = "create_geojson"
    /\ call.xyxy[1] + call.xyxy[3] = 1
    /\ call.xyxy[2] + call.xyxy[4] = 1
    /\ call.params[1] = 2 /\ call.params[2] = 3 /\ call.params[3] = -1
    /\ call.params[4] = -1
    /\ ret.raised = "no"
    /\ Len(ret.val.features) = 1

IsNumericLine(text) == ParseFloat(Strip(text)).raised = "no"

\* C10: read_jgw returns None or exactly six numbers: a missing file, a file
\* with fewer or more than six lines or with a non-numeric line gives None.
ReadJgwSixOrNone ==
    call.op = "read_jgw" =>
      /\ ret # None => Len(ret.val) = 6
      /\ ( \/ call.tfw = None
           \/ Len(call.tfw.val) # 6
           \/ \E i \in 1..Len(call.tfw.val) : ~IsNumericLine(call.tfw.val[i]) )
         => ret = None

\* The positions of the well-formed detections of a list.
WellFormed(boxes) == {i \in 1..Len(boxes) : boxes[i].xyxy # None}

\* C11: for non-None detections and a (six-number) transform, create_geojson
\* returns a FeatureCollection with exactly one Point feature per well-formed
\* detection, in detection order, with the properties label, confidence and
\* class_id, the label being labels[class_id] or "class_<id>" for an unknown
\* id; a malformed detection is skipped and leaves the features of the other
\* detections as they are.
OneFeaturePerDetection ==
    ( /\ call.op = "create_geojson_many"
      /\ ~call.isNone
      /\ call.jgw_params # None
      /\ Len(call.jgw_params.val) = 6 ) =>
       /\ ret.raised = "no"
       /\ ret.val.type = "FeatureCollection"
       /\ Len(ret.val.features) = Cardinality(WellFormed(call.boxes))
       /\ \A i \in WellFormed(call.boxes) :
            LET k == Cardinality({j \in WellFormed(call.boxes) : j <= i})
                f == ret.val.features[k]
                d == call.boxes[i]
            IN  /\ f.geometry.type = "Point"
                /\ f.geometry.coordinates = <<Fx(3 + i), Fx(2) - 1>>
                /\ DOMAIN f.properties = {"label", "confidence", "class_id"}
                /\ f.properties.class_id = d.cls
                /\ f.properties.confidence = i
                /\ f.properties.label =
                     (CASE d.cls = 0 -> "abnormal" [] d.cls = 1 -> "normal"
                        [] OTHER -> "class_2")

\* Four detections, the second malformed and the third of an unknown class:
\* three features came back, the second labelled "class_2".
MalformedDetectionSkipped ==
    /\ call.op = "create_geojson_many"
    /\ ~call.isNone
    /\ Len(call.boxes) = 4
    /\ WellFormed(call.boxes) = {1, 3, 4}
    /\ ret.raised = "no"
    /\ Len(ret.val.features) = 3
    /\ ret.val.features[2].properties.label = "class_2"
    /\ ret.val.features[3].properties.confidence = 4

\* C12: create_geojson returns an empty FeatureCollection, and raises nothing,
\* whenever the detections are None or the transform is None.
EmptyCollectionOnNone ==
    ( /\ call.op = "create_geojson_many"
      /\ (call.isNone \/ call.jgw_params = None) ) =>
       ret = Returned(FeatureCollection(<<>>))

\* create_geojson(None, None, labels) returned the empty collection.
CreateGeojsonNoneNone ==
    /\ call.op = "create_geojson_many"
    /\ call.isNone
    /\ call.jgw_params = None
    /\ ret.raised = "no"
    /\ ret.val.features = <<>>

-----------------------------------------------------------------------------
(* Properties of detect_objects. *)

\* The detections of class k in a result list, counted as a set of positions.
NumOfClass(results, k) ==
    Cardinality({rb \in {<<r, b>> \in (1..Len(results)) \X (1..MaxDet + 1) :
                            /\ results[r].boxes # None
                            /\ b <= Len(results[r].boxes.val)} :
                   results[rb[1]].boxes.val[rb[2]].cls = k})

\* C7: when detect_objects has returned, on every exit path, no normalized
\* copy <stem>_temp_rgb.jpg written by the normalizer for that image is left
\* on disk (stated for the runs in which os.remove itself does not fail).
NoTempCopyAfterDetect ==
    (call.op = "detect_objects" /\ call.env.removeIo = "ok") =>
       ~( /\ Exists(disk, TempPath(Stem))
          /\ disk[TempPath(Stem)].by = "normalizer" )

\* C9: abnormal_count is the number of detections of class 0 and normal_count
\* the number of class 1; a detection of any other class changes neither.
DetectionBucketCounts ==
    (call.op = "detect_objects" /\ ret.results # None) =>
       /\ ret.counts.abnormal_count = NumOfClass(ret.results.val, 0)
       /\ ret.counts.normal_count = NumOfClass(ret.results.val, 1)
       /\ "error" \notin DOMAIN ret.counts

\* The class ids [0, 0, 1, 2] were counted: abnormal 2, normal 1.
DetectionBucketExample ==
    /\ call.op = "detect_objects"
    /\ ret.results = Some(<<[boxes |-> Some(BoxesOf(<<0, 0, 1, 2>>))]>>)
    /\ ret.counts.abnormal_count = 2
    /\ ret.counts.normal_count = 1

\* C15, as stated: validate_and_preprocess_image returns ok=True with
\* temp_path None and writes nothing for an RGB image; returns ok=True with
\* the path of a freshly written RGB copy for an image of any other mode;
\* returns ok=False with no temp path for a file that cannot be opened.
NormalizerByModeAlways ==
    call.op = "validate_and_preprocess_image" =>
      /\ (call.image.readable /\ call.image.mode = "RGB") =>
           /\ ret.ok /\ ret.temp_path = None /\ disk = call.disk
      /\ (call.image.readable /\ call.image.mode # "RGB") =>
           /\ ret.ok /\ ret.temp_path = TempPath(Stem) /\ ret.mode = Some("RGB")
           /\ Exists(disk, TempPath(Stem))
           /\ disk[TempPath(Stem)] = Content("normalizer", "complete", <<>>)
      /\ ~call.image.readable =>
           /\ ~ret.ok /\ ret.temp_path = None /\ disk = call.disk

\* C15, amended: the same, the copy of a non-RGB image being promised only
\* when it can be written; when img.save raises, ok=False comes back with no
\* temp path, and nothing is raised.
NormalizerByMode ==
    call.op = "validate_and_preprocess_image" =>
      /\ (call.image.readable /\ call.image.mode = "RGB") =>
           /\ ret.ok /\ ret.temp_path = None /\ disk = call.disk
      /\ (call.image.readable /\ call.image.mode # "RGB" /\ call.saveIo = "ok") =>
           /\ ret.ok /\ ret.temp_path = TempPath(Stem) /\ ret.mode = Some("RGB")
           /\ Exists(disk, TempPath(Stem))
           /\ disk[TempPath(Stem)] = Content("normalizer", "complete", <<>>)
      /\ (call.image.readable /\ call.image.mode # "RGB" /\ call.saveIo # "ok") =>
           /\ ~ret.ok /\ ret.temp_path = None
      /\ ~call.image.readable =>
           /\ ~ret.ok /\ ret.temp_path = None /\ disk = call.disk

\* A palette image was normalized in a folder that already held a
\* <stem>_temp_rgb.jpg: the copy returned is the one just written.
PaletteImageCopied ==
    /\ call.op = "validate_and_preprocess_image"
    /\ call.image.readable /\ call.image.mode = "P"
    /\ Exists(call.disk, TempPath(Stem))
    /\ ret.ok
    /\ ret.temp_path = TempPath(Stem)
    /\ disk[TempPath(Stem)].by = "normalizer"

\* C16: detect_objects never raises: for an invalid image or an exception of
\* the detection capability it returns None with a summary holding an error
\* key and zero counts; otherwise it returns the non-None results with a
\* summary without an error key.
DetectObjectsNeverRaises ==
    call.op = "detect_objects" =>
      LET invalid == \/ ~call.image.readable
                     \/ call.image.mode # "RGB" /\ call.env.saveIo # "ok"
      IN  /\ DOMAIN ret = {"results", "counts"}
          /\ IF invalid \/ call.env.predict.raised # "no"
             THEN /\ ret.results = None
                  /\ "error" \in DOMAIN ret.counts
                  /\ ret.counts.abnormal_count = 0
                  /\ ret.counts.normal_count = 0
             ELSE /\ ret.results = Some(call.env.predict.val)
                  /\ "error" \notin DOMAIN ret.counts

\* The detector raised on a readable image: None came back with the error.
DetectorRaised ==
    /\ call.op = "detect_objects"
    /\ call.image.readable
    /\ call.env.predict = Raised("RuntimeError")
    /\ ret.results = None
    /\ ret.counts.error = "RuntimeError"

-----------------------------------------------------------------------------
(* Spec: process_folder(folder_path, config, progress_callback).            *)
(*                                                                         *)
(* pc is the position in the method: "start" (line 33), "load_model" (line  *)
(* 103), "scan" (line 153), "loop" (the for of line 166), then for the      *)
(* current file "georef" (line 186), "write" (line 195), "convert" (line    *)
(* 204), "except" (line 249); "returned" and "raised" are the two ways the  *)
(* call ends.  What the folder holds (images, world files) and how the      *)
(* library calls end is chosen when the code reads it.                     *)

\* os.path.join(folder_path, "annotated")
FolderAnnotated == "folder/annotated"

\* core/cli.py: the command line of the model,
\*   --folder folder --imgsz 640 --classes 0 --save-annotated
\* as argparse hands it over (weights has its default).
CliArgs ==
    [folder |-> "folder", weights |-> "model/yolov8n-pokok-kuning.pt",
     imgsz |-> "640", conf |-> "0.2", iou |-> "0.2", classes |-> "[0]",
     kml |-> FALSE, shp |-> FALSE, skip_invalid |-> FALSE,
     save_annotated |-> TRUE, annotated_folder |-> None]

\* os.path.splitext(os.path.basename(args.weights))[0]
WeightsStem(weights) ==
    IF weights = "model/yolov8n-pokok-kuning.pt" THEN "yolov8n-pokok-kuning"
    ELSE weights

\* cli.py lines 41-42: the folder the CLI announces for the annotated frames.
CliAnnotatedFolder(args) ==
    IF args.save_annotated /\ args.annotated_folder = None
    THEN Some(FolderAnnotated)
    ELSE args.annotated_folder

\* cli.py lines 51-62: the config main() builds.  A value that is not a string
\* is written as Python writes it (True, False, None, [0]): the bool True of
\* save_annotated is not the string "true".
CliConfig(args) ==
    ("model" :> WeightsStem(args.weights)) @@ ("imgsz" :> args.imgsz)
      @@ ("iou" :> args.iou) @@ ("conf" :> args.conf)
      @@ ("convert_shp" :> IF args.shp THEN "true" ELSE "false")
      @@ ("convert_kml" :> IF args.kml THEN "true" ELSE "false")
      @@ ("save_annotated" :> IF args.save_annotated THEN "True" ELSE "False")
      @@ ("annotated_folder" :> IF CliAnnotatedFolder(args) = None THEN "None"
                                ELSE CliAnnotatedFolder(args).val)
      @@ ("classes" :> args.classes)
      @@ ("skip_invalid" :> IF args.skip_invalid THEN "True" ELSE "False")

\* The config mappings of the model: keys may be missing or hold a non-number.
Configs ==
    { ("imgsz" :> "640"),
      ("model" :> "/models/custom.pt") @@ ("imgsz" :> "640") @@ ("conf" :> "0.2")
          @@ ("iou" :> "0.2") @@ ("max_det" :> "2") @@ ("line_width" :> "abc")
          @@ ("convert_kml" :> "true") @@ ("convert_shp" :> "false")
          @@ ("save_annotated" :> "true") @@ ("annotated_folder" :> "/out/annotated"),
      ("model" :> "yolov8n-pokok-kuning") @@ ("max_det" :> "abc")
          @@ ("convert_shp" :> "true") @@ ("save_annotated" :> "false")
          @@ ("annotated_folder" :> "/out/annotated"),
      ("model" :> "yolov8n-pokok-kuning") @@ ("imgsz" :> "abc")
          @@ ("convert_shp" :> "true"),
      CliConfig(CliArgs) }

\* config.get(key, default)
ConfigGet(cfg, key, default) == IF key \in DOMAIN cfg THEN cfg[key] ELSE default

\* int() on a config value: the integer literals of the model are accepted.
ParseInt(v) ==
    IF v \in {"640", "12800", "2", "10000"} THEN Returned(v)
    ELSE Raised("ValueError: invalid literal for int()")

\* float() on a config value.
ParseConfigFloat(v) ==
    IF v \in {"640", "12800", "2", "10000", "0.2"} THEN Returned(v)
    ELSE Raised("ValueError: could not convert string to float")

\* Lines 335-340: max_det of the predict call, from self.config.
EffectiveMaxDet(cfg) ==
    IF cfg # <<>> /\ "max_det" \in DOMAIN cfg
    THEN IF ParseInt(cfg["max_det"]).raised = "no" THEN cfg["max_det"] ELSE "10000"
    ELSE "10000"

\* Lines 445-450: line_width of the boxes drawn, from self.config.
EffectiveLineWidth(cfg) ==
    IF cfg # <<>> /\ "line_width" \in DOMAIN cfg
    THEN IF ParseInt(cfg["line_width"]).raised = "no" THEN cfg["line_width"] ELSE "2"
    ELSE "2"

\* os.path.isabs(model_name) or model_name.startswith("C:")
IsFullPath(model_name) == model_name = "/models/custom.pt"

\* The image file at enumerate index i, and its name without the extension.
\* The folder lists img1.tif, img2.geojson.tif, img3.tif, ...
BaseName(i) == IF i = 1 THEN "img2.geojson" ELSE "img" \o ToString(i + 1)

ImageFile(i) == BaseName(i) \o ".tif"

ErrorResult(error_msg) ==
    [error |-> error_msg, successful_processed |-> 0, failed_processed |-> 0,
     total_files |-> 0]

Init ==
    /\ IdleUnit
    /\ IdleGui
    /\ disk = EmptyDisk
    /\ pc = "start"
    /\ config \in Configs
    /\ model = None
    /\ progress_callback \in {None, Some("callback")}
    /\ total_files = 0
    /\ index = 0
    /\ successful_processed = 0
    /\ failed_processed = 0
    /\ total_abnormal = 0
    /\ total_normal = 0
    /\ cur = None
    /\ cbLog = <<>>
    /\ visited = <<>>
    /\ result = None

\* How the call ends.
Return(r) == pc' = "returned" /\ result' = r

Escape(kind) == pc' = "raised" /\ result' = Raised(kind)

loopVars == <<total_files, index, successful_processed, failed_processed,
              total_abnormal, total_normal, cur, cbLog, visited>>

\* Lines 36-101: the model path.  found is whether the path (or one of the
\* candidate paths) exists.
ResolveModel ==
    /\ pc = "start"
    /\ IF "model" \notin DOMAIN config
       THEN Escape("KeyError: 'model'")
       ELSE \E found \in BOOLEAN :
              IF found
              THEN pc' = "load_model" /\ result' = result
              ELSE IF IsFullPath(config["model"])
              THEN Return(ErrorResult("Custom model path not found"))
              ELSE Return(ErrorResult("Model not found"))
    /\ UNCHANGED <<config, model, progress_callback, disk>>
    /\ UNCHANGED loopVars
    /\ UNCHANGED unitVars
    /\ UNCHANGED guiVars

\* LoadModel without the return of lines 146-151.
LoadModelNoReturn ==
    /\ pc = "load_model"
    /\ \E loaded \in BOOLEAN :
         /\ model' = IF loaded THEN Some(ModelNames) ELSE model
         /\ pc' = "scan"
         /\ result' = result
    /\ UNCHANGED <<config, progress_callback, disk, total_files, index,
                   successful_processed, failed_processed, total_abnormal,
                   total_normal, cur, cbLog, visited>>
    /\ UNCHANGED unitVars
    /\ UNCHANGED guiVars

\* Lines 103-151: loading the model; loaded is whether YOLO(model_path) returns.
LoadModel ==
    /\ pc = "load_model"
    /\ \E loaded \in BOOLEAN :
         IF loaded
         THEN model' = Some(ModelNames) /\ pc' = "scan" /\ result' = result
         ELSE model' = model /\ Return(ErrorResult("Failed to load model"))
    /\ UNCHANGED <<config, progress_callback, disk>>
    /\ UNCHANGED loopVars
    /\ UNCHANGED unitVars
    /\ UNCHANGED guiVars

\* Lines 153-164: os.listdir and the counters.
ScanFolder ==
    /\ pc = "scan"
    /\ \/ /\ Escape("OSError: listdir")
          /\ UNCHANGED loopVars
       \/ /\ \E n \in 0..MaxFiles : total_files' = n
          /\ index' = 0
          /\ successful_processed' = 0
          /\ failed_processed' = 0
          /\ total_abnormal' = 0
          /\ total_normal' = 0
          /\ pc' = "loop"
          /\ UNCHANGED <<cur, cbLog, visited, result>>
    /\ UNCHANGED <<config, model, progress_callback, disk>>
    /\ UNCHANGED unitVars
    /\ UNCHANGED guiVars

\* "continue": the next iteration of the for loop.
Continue == index' = index + 1 /\ cur' = None /\ pc' = "loop"

\* The images and the library outcomes a batch meets.
BatchImages == {Unreadable, ImageOfMode("RGB"), ImageOfMode("L")}

\* A detection of class class_id without coordinate data: create_geojson
\* skips it (lines 563-564), the counting loop of detect_objects reads only
\* its class (lines 365-370).
MalformedBox(class_id) == [xyxy |-> None, cls |-> class_id, conf |-> 1]

BatchResultLists == {<<[boxes |-> Some(BoxesOf(<<0>>))]>>,
                     <<[boxes |-> Some(BoxesOf(<<0, 1, 2>>) \o <<MalformedBox(0)>>)]>>}

BatchDetectEnvs ==
    [saveIo : {"ok", "save_fails"},
     predict : {Raised("RuntimeError")} \cup {Returned(r) : r \in BatchResultLists},
     annotIo : {"ok", "raises"}, removeIo : {"ok"}]

\* Lines 166-184: the loop is entered for the next file, detect_objects runs.
DetectFile ==
    /\ pc = "loop"
    /\ index < total_files
    /\ visited' = Append(visited, index)
    /\ LET imgsz == ParseInt(ConfigGet(config, "imgsz", "12800"))
           conf  == ParseConfigFloat(ConfigGet(config, "conf", "0.2"))
           iou   == ParseConfigFloat(ConfigGet(config, "iou", "0.2"))
           save_annotated == ConfigGet(config, "save_annotated", "") = "true"
           annotated_folder == IF save_annotated THEN Some(FolderAnnotated) ELSE None
           args == [imgsz |-> imgsz.val, conf |-> conf.val, iou |-> iou.val,
                    max_det |-> EffectiveMaxDet(config),
                    line_width |-> EffectiveLineWidth(config)]
           \* the call of lines 173-180 names no classes: the default of
           \* line 316, None, is what predict gets (line 345)
           classes == "None"
       IN  IF imgsz.raised # "no" \/ conf.raised # "no" \/ iou.raised # "no"
           THEN /\ cur' = [exc |-> IF imgsz.raised # "no" THEN imgsz.raised
                                   ELSE IF conf.raised # "no" THEN conf.raised
                                   ELSE iou.raised]
                /\ pc' = "except"
                /\ UNCHANGED <<index, failed_processed, disk>>
           ELSE \E image \in BatchImages, env \in BatchDetectEnvs :
                  LET r == DetectObjects(disk, BaseName(index), image,
                                         save_annotated, annotated_folder, env)
                  IN  /\ disk' = r.disk
                      /\ IF r.results = None
                         THEN /\ failed_processed' = failed_processed + 1
                              /\ Continue
                         ELSE /\ cur' = [detected_objects |-> r.results,
                                         counts |-> r.counts, args |-> args,
                                         classes |-> classes,
                                         save_annotated |-> save_annotated,
                                         annotated_folder |-> annotated_folder]
                              /\ pc' = "georef"
                              /\ UNCHANGED <<index, failed_processed>>
    /\ UNCHANGED <<config, model, progress_callback, total_files,
                   successful_processed, total_abnormal, total_normal, cbLog, result>>
    /\ UNCHANGED unitVars
    /\ UNCHANGED guiVars

\* The world files a batch meets: none, five lines, six lines, a bad line.
BatchWorldFiles ==
    {None,
     Some(<<"0.5\n", " -1 \n", " -1 \n", "0.5\n", " -1 \n">>),
     Some(<<"0.5\n", " -1 \n", " -1 \n", "0.5\n", " -1 \n", "0.5\n">>),
     Some(<<"0.5\n", " -1 \n", "abc\n", "0.5\n", " -1 \n", "0.5\n">>)}

\* Lines 186-193: read_jgw.
GeoreferenceFile ==
    /\ pc = "georef"
    /\ \E tfw \in BatchWorldFiles :
         LET jgw_params == ReadJgw(tfw)
         IN  IF jgw_params = None
             THEN /\ failed_processed' = failed_processed + 1
                  /\ Continue
             ELSE /\ cur' = [detected_objects |-> cur.detected_objects,
                             counts |-> cur.counts, jgw_params |-> jgw_params]
                  /\ pc' = "write"
                  /\ UNCHANGED <<index, failed_processed>>
    /\ UNCHANGED <<config, model, progress_callback, total_files, disk,
                   successful_processed, total_abnormal, total_normal, cbLog,
                   visited, result>>
    /\ UNCHANGED unitVars
    /\ UNCHANGED guiVars

\* How the open() of save_geojson ends in a batch.
BatchSaveIo == {"ok", "open_fails"}

\* Lines 195-202: create_geojson and save_geojson.
WriteGeojson ==
    /\ pc = "write"
    /\ LET labels == model.val
           feature_collection ==
               CreateGeojson(cur.detected_objects, cur.jgw_params, labels)
       IN  IF feature_collection.raised # "no"
           THEN /\ cur' = [exc |-> feature_collection.raised]
                /\ pc' = "except"
                /\ UNCHANGED <<index, failed_processed, disk>>
           ELSE \E io \in BatchSaveIo :
                  LET saved == SaveGeojson(disk, feature_collection.val,
                                           BaseName(index), io)
                  IN  /\ disk' = saved.disk
                      /\ IF saved.path = None
                         THEN /\ failed_processed' = failed_processed + 1
                              /\ Continue
                         ELSE /\ cur' = [counts |-> cur.counts,
                                         geojson_output_path |-> saved.path]
                              /\ pc' = "convert"
                              /\ UNCHANGED <<index, failed_processed>>
    /\ UNCHANGED <<config, model, progress_callback, total_files,
                   successful_processed, total_abnormal, total_normal, cbLog,
                   visited, result>>
    /\ UNCHANGED unitVars
    /\ UNCHANGED guiVars

\* str.replace(".geojson", ext) on a stem of the folder: every occurrence of
\* ".geojson" is replaced, the one inside a stem included.
ReplaceGeojson(stem, ext) ==
    IF stem = "img2.geojson" THEN "img2" \o ext ELSE stem

\* geojson_output_path.replace('.geojson', '.kml')
KmlPath(geojson_path) ==
    [stem |-> ReplaceGeojson(geojson_path.stem, ".kml"), kind |-> "kml",
     n |-> geojson_path.n]

\* geojson_output_path.replace('.geojson', '.shp')
ShpPath(geojson_path) ==
    [stem |-> ReplaceGeojson(geojson_path.stem, ".shp"), kind |-> "shp",
     n |-> geojson_path.n]

\* A conversion that, when it fails, takes the GeoJSON away with it.
ConvertGeojsonRollback(d, geojson_path, out_path, io) ==
    IF io = "ok" /\ Exists(d, geojson_path)
    THEN [ok |-> TRUE,
          disk |-> WriteFile(d, out_path,
                             Content("convert", "complete", d[geojson_path].features))]
    ELSE [ok |-> FALSE, disk |-> RemoveFile(d, geojson_path)]

\* convert_geojson_to_kml and convert_geojson_to_shp: io is "ok" or any failure
\* of the conversion, which is caught (the functions return True or False).
ConvertGeojson(d, geojson_path, out_path, io) ==
    IF io = "ok"
    THEN [ok |-> TRUE,
          disk |-> WriteFile(d, out_path,
                             Content("convert", "complete", d[geojson_path].features))]
    ELSE [ok |-> FALSE, disk |-> d]

ConvertIo(flag) == IF flag THEN {"ok", "fails"} ELSE {"off"}

\* total_abnormal += abnormal_count with the count assigned, not added.
AddCountAssigns(total, count) == count

\* Lines 224-225: total_abnormal += abnormal_count, total_normal += normal_count.
AddCount(total, count) == total + count

\* One call of progress_callback: the record is logged, with whether the
\* callback raised.
Callback(progress, raises) == cbLog' = Append(cbLog, [record |-> progress, raised |-> raises])

\* Lines 204-247: the conversions, the counters and the progress record of a
\* file whose GeoJSON was written.
ConvertAndReport ==
    /\ pc = "convert"
    /\ LET convert_kml == ConfigGet(config, "convert_kml", "") = "true"
           convert_shp == ConfigGet(config, "convert_shp", "") = "true"
           abnormal_count == cur.counts.abnormal_count
           normal_count == cur.counts.normal_count
           progress ==
               [processed |-> index + 1, total |-> total_files,
                successful |-> successful_processed + 1,
                failed |-> failed_processed,
                current_file |-> ImageFile(index),
                status |-> "Processed successfully",
                file_duration |-> "%.2fs", avg_time_per_file |-> "%.2fs",
                abnormal_count |-> abnormal_count, normal_count |-> normal_count,
                image_info |-> cur.counts.image_size]
       IN  /\ \E kmlIo \in ConvertIo(convert_kml), shpIo \in ConvertIo(convert_shp) :
                LET d1 == IF convert_kml
                          THEN ConvertGeojson(disk, cur.geojson_output_path,
                                    KmlPath(cur.geojson_output_path), kmlIo).disk
                          ELSE disk
                    d2 == IF convert_shp
                          THEN ConvertGeojson(d1, cur.geojson_output_path,
                                    ShpPath(cur.geojson_output_path), shpIo).disk
                          ELSE d1
                IN  disk' = d2
           /\ successful_processed' = successful_processed + 1
           /\ total_abnormal' = AddCount(total_abnormal, abnormal_count)
           /\ total_normal' = AddCount(total_normal, normal_count)
           /\ IF progress_callback # None
              THEN \E raises \in BOOLEAN :
                     /\ Callback(progress, raises)
                     /\ IF raises
                        THEN /\ cur' = [exc |-> "CallbackError"]
                             /\ pc' = "except"
                             /\ index' = index
                        ELSE Continue
              ELSE cbLog' = cbLog /\ Continue
    /\ UNCHANGED <<config, model, progress_callback, total_files,
                   failed_processed, visited, result>>
    /\ UNCHANGED unitVars
    /\ UNCHANGED guiVars

\* Lines 249-262: the except clause of the per-file try.
HandleException ==
    /\ pc = "except"
    /\ failed_processed' = failed_processed + 1
    /\ LET progress ==
               [processed |-> index + 1, total |-> total_files,
                successful |-> successful_processed,
                failed |-> failed_processed + 1,
                current_file |-> ImageFile(index),
                status |-> "Error: " \o cur.exc,
                abnormal_count |-> 0, normal_count |-> 0]
       IN  IF progress_callback # None
           THEN \E raises \in BOOLEAN :
                  /\ Callback(progress, raises)
                  /\ IF raises
                     THEN /\ Escape("CallbackError")
                          /\ UNCHANGED <<index, cur>>
                     ELSE Continue /\ result' = result
           ELSE cbLog' = cbLog /\ Continue /\ result' = result
    /\ UNCHANGED <<config, model, progress_callback, total_files, disk,
                   successful_processed, total_abnormal, total_normal, visited>>
    /\ UNCHANGED unitVars
    /\ UNCHANGED guiVars

\* Lines 264-281: the loop is over.
ReturnResult ==
    /\ pc = "loop"
    /\ index >= total_files
    /\ Return([successful_processed |-> successful_processed,
               failed_processed |-> failed_processed,
               total_files |-> total_files,
               total_time |-> "seconds",
               total_abnormal |-> total_abnormal,
               total_normal |-> total_normal])
    /\ UNCHANGED <<config, model, progress_callback, disk>>
    /\ UNCHANGED loopVars
    /\ UNCHANGED unitVars
    /\ UNCHANGED guiVars

Next ==
    \/ ResolveModel
    \/ LoadModel
    \/ ScanFolder
    \/ DetectFile
    \/ GeoreferenceFile
    \/ WriteGeojson
    \/ ConvertAndReport
    \/ HandleException
    \/ ReturnResult

Spec == Init /\ [][Next]_vars

-----------------------------------------------------------------------------
(* Properties of process_folder. *)

\* The call returned the dictionary of lines 274-281.
ReturnedNormally == pc = "returned" /\ "error" \notin DOMAIN result

\* The model was loaded and the folder listed.
FolderScanned ==
    /\ model # None
    /\ pc \notin {"idle", "start", "load_model", "scan"}
    /\ result # Raised("OSError: listdir")

\* C1: once the model has loaded (and the folder is listed), no failure of a
\* per-file stage and no exception of the per-file body stops the loop: the
\* files are visited once each in list order, the call does not end by an
\* exception, and it returns total_files = the number of image files found.
StageFailureNeverStopsLoop ==
    FolderScanned =>
      /\ \A k \in 1..Len(visited) : visited[k] = k - 1
      /\ pc # "raised"
      /\ pc = "returned" =>
           /\ Len(visited) = total_files
           /\ result.total_files = total_files

\* C2: process_folder never lets an exception escape to its caller.
ProcessFolderNeverRaises == pc # "raised"

\* C3: when the model cannot be resolved or loaded, process_folder returns at
\* once an error result with all three counters 0, having visited no image,
\* written no file and called no callback; and only then has a result an
\* error field.
ModelFailureIsFatal ==
    /\ (model = None /\ pc \notin {"idle", "start", "load_model"}) =>
         \/ pc = "raised" /\ result = Raised("KeyError: 'model'")
         \/ /\ pc = "returned"
            /\ result \in {ErrorResult("Custom model path not found"),
                           ErrorResult("Model not found"),
                           ErrorResult("Failed to load model")}
            /\ visited = <<>>
            /\ cbLog = <<>>
            /\ disk = EmptyDisk
            /\ successful_processed = 0 /\ failed_processed = 0
    /\ (pc = "returned" /\ "error" \in DOMAIN result) => model = None

\* The loader raised, with a callback supplied: the error result came back.
ModelLoadFailed ==
    /\ pc = "returned"
    /\ result = ErrorResult("Failed to load model")
    /\ progress_callback # None
    /\ cbLog = <<>>

\* C4: with a callback supplied, process_folder calls it exactly once for
\* every image file of the batch, Succeeded or Failed.
CallbackOncePerFile ==
    (ReturnedNormally /\ progress_callback # None) =>
       \A i \in 1..total_files :
          Cardinality({k \in 1..Len(cbLog) : cbLog[k].record.processed = i}) = 1

\* C5: when process_folder returns without an error field,
\* successful_processed + failed_processed = total_files.
CountersAddUp ==
    ReturnedNormally =>
       result.successful_processed + result.failed_processed = result.total_files

-----------------------------------------------------------------------------
(* Properties of the stages of one file. *)

\* C13: a failure of convert_geojson_to_kml, of convert_geojson_to_shp or of
\* save_annotated_frame never turns a file into a failed file.  Whatever the
\* conversions do, the step that runs them counts the file in
\* successful_processed, leaves failed_processed alone and leaves the GeoJSON
\* in place with the content it had; and the step that runs detect_objects
\* (and in it the renderer) reaches the except clause only for a config value
\* that int() or float() rejects, never for the renderer.
BestEffortStepsKeepFile ==
    [][ /\ pc = "convert" =>
             /\ successful_processed' = successful_processed + 1
             /\ failed_processed' = failed_processed
             /\ Exists(disk', cur.geojson_output_path)
             /\ disk'[cur.geojson_output_path] = disk[cur.geojson_output_path]
        /\ (pc = "loop" /\ pc' = "except") =>
             cur'.exc \in {"ValueError: invalid literal for int()",
                           "ValueError: could not convert string to float"}
      ]_vars

\* One file, KML and annotation requested, both failed (no .kml, no annotated
\* image on disk): the file was counted as successful and its GeoJSON is there.
ConversionAndAnnotationFailed ==
    /\ pc = "returned"
    /\ ConfigGet(config, "convert_kml", "") = "true"
    /\ ConfigGet(config, "save_annotated", "") = "true"
    /\ total_files = 1
    /\ result.successful_processed = 1
    /\ result.failed_processed = 0
    /\ DOMAIN disk = {GeojsonPath(BaseName(0), 0)}
    /\ disk[GeojsonPath(BaseName(0), 0)].state = "complete"

\* The value of a numeric config key when int() accepts it, else the default.
IntOrDefault(cfg, key, default) ==
    IF key \in DOMAIN cfg /\ cfg[key] \in {"640", "12800", "2", "10000"}
    THEN cfg[key] ELSE default

FloatOrDefault(cfg, key, default) ==
    IF key \in DOMAIN cfg /\ cfg[key] \in {"640", "12800", "2", "10000", "0.2"}
    THEN cfg[key] ELSE default

\* C14: a missing or non-numeric value of imgsz, conf, iou, max_det or
\* line_width never fails a file: no file reaches the except clause because of
\* such a value, and the file is processed with the value of the key if it is
\* numeric and else with the default (12800, 0.2, 0.2, 10000, 2).
ConfigFallsBackToDefaults ==
    /\ pc = "except" =>
         cur.exc \notin {"ValueError: invalid literal for int()",
                         "ValueError: could not convert string to float"}
    /\ pc = "georef" =>
         cur.args = [imgsz      |-> IntOrDefault(config, "imgsz", "12800"),
                     conf       |-> FloatOrDefault(config, "conf", "0.2"),
                     iou        |-> FloatOrDefault(config, "iou", "0.2"),
                     max_det    |-> IntOrDefault(config, "max_det", "10000"),
                     line_width |-> IntOrDefault(config, "line_width", "2")]

\* C17: the Annotation Renderer runs for a file only after that file's world
\* file was read and its GeoJSON written: an annotated image on disk belongs
\* to a file whose GeoJSON save_geojson has written.
AnnotationAfterGeojson ==
    \A p \in DOMAIN disk :
       p.kind = "annotated" =>
          \E n \in 0..MaxFiles :
             /\ Exists(disk, GeojsonPath(p.stem, n))
             /\ disk[GeojsonPath(p.stem, n)].by = "save_geojson"
             /\ disk[GeojsonPath(p.stem, n)].state = "complete"

\* C18: an annotated image is written only when save_annotated is "true", and
\* then into the folder the config key annotated_folder names.
AnnotatedInConfiguredFolder ==
    \A p \in DOMAIN disk :
       p.kind = "annotated" =>
          /\ ConfigGet(config, "save_annotated", "") = "true"
          /\ "annotated_folder" \in DOMAIN config
          /\ p.folder = config["annotated_folder"]

\* The sums of the abnormal_count and normal_count fields of progress records.
RECURSIVE SumAbnormal(_)
SumAbnormal(log) ==
    IF log = <<>> THEN 0
    ELSE Head(log).record.abnormal_count + SumAbnormal(Tail(log))

RECURSIVE SumNormal(_)
SumNormal(log) ==
    IF log = <<>> THEN 0
    ELSE Head(log).record.normal_count + SumNormal(Tail(log))

ConversionsFollowGeojson ==
    \A p \in DOMAIN disk :
       p.kind \in {"kml", "shp"} =>
          /\ ConfigGet(config, "convert_" \o p.kind, "") = "true"
          /\ Exists(disk, GeojsonPath(p.stem, p.n))
          /\ disk[GeojsonPath(p.stem, p.n)].by = "save_geojson"
          /\ disk[GeojsonPath(p.stem, p.n)].state = "complete"
          /\ disk[p].features = disk[GeojsonPath(p.stem, p.n)].features

-----------------------------------------------------------------------------
(* Properties of the command line and of the class filter.                  *)

\* C21: the class filter of the config (key classes, CLI option --classes)
\* is the class list predict is called with, for every file.
ClassFilterReachesPredict ==
    (pc = "georef" /\ "classes" \in DOMAIN config)
        => cur.classes = config["classes"]

\* save_annotated_frame was called for the current file (line 373).
RendererInvoked ==
    /\ cur.save_annotated
    /\ cur.annotated_folder # None
    /\ cur.detected_objects.val # <<>>

\* C22: run from the CLI with --save-annotated, the renderer is invoked for
\* every image whose detection succeeds, with the folder the CLI announces.
CliSaveAnnotatedRenders ==
    (pc = "georef" /\ config = CliConfig(CliArgs) /\ CliArgs.save_annotated)
        => /\ RendererInvoked
           /\ cur.annotated_folder = CliAnnotatedFolder(CliArgs)

\* C26: in every progress record processed = successful + failed and
\* processed <= total, and over the successive records of one batch the
\* processed values are strictly increasing.
ProcessedCountsEveryFileOnce ==
    /\ \A k \in 1..Len(cbLog) :
          /\ cbLog[k].record.processed
                = cbLog[k].record.successful + cbLog[k].record.failed
          /\ cbLog[k].record.processed <= cbLog[k].record.total
    /\ \A k \in 1..Len(cbLog), j \in 1..Len(cbLog) :
          k < j => cbLog[k].record.processed < cbLog[j].record.processed

\* The same, for the batches in which no call of the callback raised.
ProcessedCountsWithoutRaise ==
    (\A k \in 1..Len(cbLog) : ~cbLog[k].raised) => ProcessedCountsEveryFileOnce

\* C27: normalization and its cleanup never overwrite or delete a file that
\* was in the folder before: a <stem>_temp_rgb.jpg present when a non-RGB
\* image <stem>.<ext> is processed is still there, with the content it had,
\* after detect_objects returns.
PreexistingTempFileKept ==
    (/\ call.op = "detect_objects"
     /\ call.image.readable
     /\ call.image.mode # "RGB"
     /\ Exists(call.disk, TempPath(Stem)))
        => /\ Exists(disk, TempPath(Stem))
           /\ disk[TempPath(Stem)] = call.disk[TempPath(Stem)]

\* The features of class k in a list of features.
FeaturesOfClass(features, k) ==
    Cardinality({i \in 1..Len(features) : features[i].properties.class_id = k})

\* C29: for every successfully processed file, abnormal_count and
\* normal_count of its progress record are the numbers of features with
\* class_id 0 and class_id 1 in the GeoJSON written for that file, whatever
\* the result set holds, malformed detections included.
CountsMatchGeojsonFeatures ==
    \A k \in 1..Len(cbLog) :
       cbLog[k].record.status = "Processed successfully" =>
          LET path == GeojsonPath(BaseName(cbLog[k].record.processed - 1), 0)
          IN  /\ Exists(disk, path)
              /\ cbLog[k].record.abnormal_count
                    = FeaturesOfClass(disk[path].features, 0)
              /\ cbLog[k].record.normal_count
                    = FeaturesOfClass(disk[path].features, 1)

-----------------------------------------------------------------------------
(* SpecScript: one run of the standalone script src/main.py.               *)
(* The script loads the model, lists the images and runs the loop of lines  *)
(* 380-465 over them.  How the stages of one image end is given with the    *)
(* image: "ok", "detect_none" (detect_objects returns None: the image is    *)
(* invalid or the detector failed), "no_world_file" (read_jgw returns None), *)
(* "save_none" (save_geojson returns None), "raises" (an exception reaches   *)
(* the except clause of line 459).                                          *)

ScriptOutcomes == {"ok", "detect_none", "no_world_file", "save_none", "raises"}

\* Lines 380-465: the for loop from image k on (k = index + 1); st holds the
\* counters, the indexes the loop has entered, and the records printed.
RECURSIVE ScriptLoop(_, _, _, _)
ScriptLoop(outcomes, skip_invalid, k, st) ==
    IF k > Len(outcomes) THEN st
    ELSE LET entered == [st EXCEPT !.visited = Append(@, k)]
             failed == [entered EXCEPT !.failed_processed = @ + 1]
             o == outcomes[k]
         IN  CASE o = "detect_none" ->
                    \* lines 392-398: counted only with --skip-invalid,
                    \* "continue" in both branches
                    ScriptLoop(outcomes, skip_invalid, k + 1,
                               IF skip_invalid THEN failed ELSE entered)
               [] o \in {"no_world_file", "save_none"} ->
                    \* lines 405-408 and 415-417
                    ScriptLoop(outcomes, skip_invalid, k + 1, failed)
               [] o = "raises" ->
                    \* lines 459-465
                    IF skip_invalid
                    THEN ScriptLoop(outcomes, skip_invalid, k + 1, failed)
                    ELSE [failed EXCEPT !.stopped = TRUE]
               [] OTHER ->
                    \* lines 428-453
                    ScriptLoop(outcomes, skip_invalid, k + 1,
                        [entered EXCEPT
                           !.successful_processed = @ + 1,
                           !.printed = Append(@,
                               [processed |-> k, total |-> Len(outcomes),
                                successful |-> entered.successful_processed + 1,
                                failed |-> entered.failed_processed])])

\* Lines 377-378 and the loop.
MainScript(outcomes, skip_invalid) ==
    ScriptLoop(outcomes, skip_invalid, 1,
               [successful_processed |-> 0, failed_processed |-> 0,
                visited |-> <<>>, printed |-> <<>>, stopped |-> FALSE])

InitScript ==
    /\ IdleUnit
    /\ IdleGui
    /\ disk = EmptyDisk
    /\ IdleBatch

CallMainScript ==
    /\ call = NoCall
    /\ \E outcomes \in SeqsUpTo(ScriptOutcomes, MaxFiles), skip_invalid \in BOOLEAN :
         /\ call' = [op |-> "main.py", outcomes |-> outcomes,
                     skip_invalid |-> skip_invalid]
         /\ ret' = MainScript(outcomes, skip_invalid)
    /\ UNCHANGED <<trace, disk>>
    /\ UNCHANGED batchVars
    /\ UNCHANGED guiVars

NextScript == CallMainScript

SpecScript == InitScript /\ [][NextScript]_vars

\* The images of a run that end neither with a GeoJSON nor with a missing
\* world file or an unwritable output: validation or detection failed, or an
\* unexpected error was raised.
InvalidImages(outcomes) ==
    {i \in 1..Len(outcomes) : outcomes[i] \in {"detect_none", "raises"}}

\* C24: with --skip-invalid every image is visited and each invalid one is
\* counted as failed; without it the run stops at the first invalid image.
SkipInvalidOrStop ==
    call.op = "main.py" =>
       LET invalid == InvalidImages(call.outcomes)
       IN  IF call.skip_invalid
           THEN /\ ret.visited = [i \in 1..Len(call.outcomes) |-> i]
                /\ ret.failed_processed
                      = Cardinality({i \in 1..Len(call.outcomes) :
                                        call.outcomes[i] # "ok"})
           ELSE \A i \in invalid :
                   \A j \in 1..Len(ret.visited) : ret.visited[j] <= i

\* The half of C24 that holds: the run with --skip-invalid.
SkipInvalidVisitsAll ==
    (call.op = "main.py" /\ call.skip_invalid) =>
       /\ ret.visited = [i \in 1..Len(call.outcomes) |-> i]
       /\ ret.failed_processed
             = Cardinality({i \in 1..Len(call.outcomes) : call.outcomes[i] # "ok"})

-----------------------------------------------------------------------------
(* SpecLegacy: one session of the legacy GUI, src/app.py, which runs         *)
(* src/feature_convert_shp.py as a subprocess and reads its progress         *)
(* records.  total_abnormal and total_normal are here the globals of app.py  *)
(* (lines 22-23), total_files its total_file_tiff; trace holds one entry per *)
(* conversion run of the session, ret what the result window shows.         *)

MaxRuns == 2        \* conversion runs of one session

\* The images of a run, by the detections of class 0 and class 1 in them.
LegacyImages == [abnormal : 0..1, normal : 0..1]

\* The detections of class k ("abnormal" or "normal") in the first j images.
RECURSIVE DetectionsUpTo(_, _, _)
DetectionsUpTo(images, k, j) ==
    IF j = 0 THEN 0 ELSE images[j][k] + DetectionsUpTo(images, k, j - 1)

\* feature_convert_shp.py: the records one run of the script prints.
\* global_abnormal_count and global_normal_count start at 0 with the process
\* and are only ever incremented (lines 16-29): the record of image j carries
\* the counts of the images 1..j (lines 174-185).
LegacyRecords(images) ==
    [j \in 1..Len(images) |->
        [abnormal_count |-> DetectionsUpTo(images, "abnormal", j),
         normal_count   |-> DetectionsUpTo(images, "normal", j),
         processed |-> j, total |-> Len(images),
         status |-> "Processed successfully"]]

\* app.py lines 196-235 for one counter: every record's count is added.
RECURSIVE AddRecords(_, _, _)
AddRecords(total, records, key) ==
    IF records = <<>> THEN total
    ELSE AddRecords(total + Head(records)[key], Tail(records), key)

InitLegacy ==
    /\ IdleUnit
    /\ IdleGui
    /\ disk = EmptyDisk
    /\ IdleBatch

\* app.py run_conversion (lines 169-237): the subprocess, the reading loop and
\* the countdown that ends with the result button.
RunConversion ==
    /\ Len(trace) < MaxRuns
    /\ \E images \in SeqsUpTo(LegacyImages, MaxFiles) :
         LET records == LegacyRecords(images)
         IN  /\ call' = [op |-> "run_conversion", images |-> images]
             /\ total_abnormal' = AddRecords(total_abnormal, records, "abnormal_count")
             /\ total_normal' = AddRecords(total_normal, records, "normal_count")
             /\ total_files' = IF records = <<>> THEN total_files ELSE Len(images)
    /\ trace' = Append(trace, "run_conversion")
    /\ ret' = None
    /\ pc' = "result_button"
    /\ UNCHANGED <<disk, config, model, progress_callback, index,
                   successful_processed, failed_processed, cur, cbLog, visited,
                   result>>
    /\ UNCHANGED guiVars

\* app.py show_result_window (lines 244-282).
ShowResultWindow ==
    /\ pc = "result_button"
    /\ ret' = [total_processed |-> total_files, total_normal |-> total_normal,
               total_abnormal |-> total_abnormal]
    /\ pc' = "result_window"
    /\ UNCHANGED <<call, trace, disk, config, model, progress_callback,
                   total_files, index, successful_processed, failed_processed,
                   total_abnormal, total_normal, cur, cbLog, visited, result>>
    /\ UNCHANGED guiVars

NextLegacy == RunConversion \/ ShowResultWindow

SpecLegacy == InitLegacy /\ [][NextLegacy]_vars

\* C30: the totals the result window shows after a conversion run are the
\* numbers of class-0 and class-1 detections in the images of that run.
LegacyTotalsAreOfTheRun ==
    pc = "result_window" =>
       /\ ret.total_abnormal
             = DetectionsUpTo(call.images, "abnormal", Len(call.images))
       /\ ret.total_normal
             = DetectionsUpTo(call.images, "normal", Len(call.images))

\* The one case in which C30 holds: the first run of a session, over a
\* folder with at most one image.
LegacyTotalsOfFirstSingleImage ==
    (pc = "result_window" /\ Len(trace) = 1 /\ Len(call.images) <= 1) =>
       /\ ret.total_abnormal
             = DetectionsUpTo(call.images, "abnormal", Len(call.images))
       /\ ret.total_normal
             = DetectionsUpTo(call.images, "normal", Len(call.images))

-----------------------------------------------------------------------------
(* SpecRace: two batch invocations over the same folder.                    *)
(* MainWindow.start_conversion (main_window.py lines 1141-1165) creates and  *)
(* starts a new ProcessingThread on every request, whether or not the       *)
(* thread of an earlier request still runs; each thread has an              *)
(* ImageProcessor of its own and they share the folder.  The model follows  *)
(* the two threads through save_geojson (processor.py lines 570-585) for    *)
(* the same image: os.path.exists and open are separate system calls, and   *)
(* the threads are interleaved between any two of them.                     *)
(* threads[t] is the position of invocation t inside save_geojson:          *)
(* "called" (line 572), "exists" (the test of line 576), "open" (line 581), *)
(* "returned"; with its locals output_path and counter.                     *)

Invocations == {"first", "second"}

\* The feature collection an invocation writes: its own.
CollectionOf(t) == FeatureCollection(<<[properties |-> [invocation |-> t]]>>)

InitRace ==
    /\ IdleUnit
    /\ gui = None
    /\ threads = [t \in Invocations |->
                     [pc |-> "called", output_path |-> None, counter |-> 0,
                      out |-> None]]
    /\ disk \in SaveDisks
    /\ IdleBatch

\* Lines 572-575: the first path to try.
SaveBegin(t) ==
    /\ threads[t].pc = "called"
    /\ threads' = [threads EXCEPT ![t] =
                      [pc |-> "exists", output_path |-> Some(GeojsonPath(Stem, 0)),
                       counter |-> 1, out |-> None]]
    /\ UNCHANGED <<disk, gui>>
    /\ UNCHANGED unitVars
    /\ UNCHANGED batchVars

\* Lines 576-578: one test of the while loop, and its body when the path is
\* taken.
SaveTestExists(t) ==
    /\ threads[t].pc = "exists"
    /\ threads' = [threads EXCEPT ![t] =
                      IF Exists(disk, threads[t].output_path.val)
                      THEN [pc |-> "exists",
                            output_path |-> Some(GeojsonPath(Stem, threads[t].counter)),
                            counter |-> threads[t].counter + 1, out |-> None]
                      ELSE [threads[t] EXCEPT !.pc = "open"]]
    /\ UNCHANGED <<disk, gui>>
    /\ UNCHANGED unitVars
    /\ UNCHANGED batchVars

\* Lines 580-585: open(output_path, "w") truncates or creates the file, the
\* dump fills it; io is how the open ends.
SaveOpenAndDump(t) ==
    /\ threads[t].pc = "open"
    /\ \E io \in BatchSaveIo :
         IF io = "ok"
         THEN /\ disk' = WriteFile(disk, threads[t].output_path.val,
                            Content("save_geojson", "complete",
                                    CollectionOf(t).features))
              /\ threads' = [threads EXCEPT ![t].pc = "returned",
                                            ![t].out = threads[t].output_path]
         ELSE /\ disk' = disk
              /\ threads' = [threads EXCEPT ![t].pc = "returned"]
    /\ UNCHANGED gui
    /\ UNCHANGED unitVars
    /\ UNCHANGED batchVars

NextRace ==
    \E t \in Invocations : SaveBegin(t) \/ SaveTestExists(t) \/ SaveOpenAndDump(t)

SpecRace == InitRace /\ [][NextRace]_vars

\* C28: two invocations running concurrently over the same folder never
\* write the same path: a GeoJSON written by one is never overwritten by
\* the other.
ConcurrentSavesNeverCollide ==
    \A t \in Invocations :
       threads[t].out # None =>
          /\ \A u \in Invocations \ {t} : threads[u].out # threads[t].out
          /\ disk[threads[t].out.val].features = CollectionOf(t).features

\* The files the folder held before the two calls are kept by both of them.
ConcurrentSavesKeepOldFiles ==
    \A p \in DOMAIN disk :
       (\A t \in Invocations : threads[t].out # Some(p)) => disk[p] = OldFile

-----------------------------------------------------------------------------
(* SpecGui: one run of ProcessingThread under MainWindow.                   *)
(* ui/main_window.py: start_conversion creates the thread and starts it;    *)
(* run() calls process_folder with progress_update.emit as the callback and *)
(* emits processing_finished; the signals are queued to the main thread,    *)
(* which handles them one at a time, in the order of their emission, in the *)
(* slots update_progress and processing_complete.                           *)
(* gui.thread is the position of run(): "running" until its emit of         *)
(* processing_finished, then "finished"; gui.finished holds what            *)
(* processing_finished was emitted with; gui.delivered is the number of     *)
(* signals the main thread has handled; the other fields are the widgets.   *)
(* The progress_update signals emitted so far are the records of cbLog.     *)

MaxGuiFiles == 2    \* image files of the folder of a GUI run

\* get_current_config: the GUI always names a model (start_conversion returns
\* early without one) and never a class filter.
GuiConfigs == {c \in Configs : "model" \in DOMAIN c /\ "classes" \notin DOMAIN c}

\* The widgets as init_ui leaves them and start_conversion sets them.
InitialWidgets ==
    [progress_bar   |-> [maximum |-> 100, value |-> -1],
     progress_text  |-> [current |-> 0, total |-> 0],
     process_status |-> "Processing",
     message_box    |-> "none"]

InitGui ==
    /\ IdleUnit
    /\ threads = <<>>
    /\ gui = [thread |-> "running", finished |-> <<>>, delivered |-> 0]
                @@ InitialWidgets
    /\ disk = EmptyDisk
    /\ pc = "start"
    /\ config \in GuiConfigs
    /\ model = None
    /\ progress_callback = Some("progress_update.emit")
    /\ total_files = 0
    /\ index = 0
    /\ successful_processed = 0
    /\ failed_processed = 0
    /\ total_abnormal = 0
    /\ total_normal = 0
    /\ cur = None
    /\ cbLog = <<>>
    /\ visited = <<>>
    /\ result = None

\* Lines 669-673: a step of process_folder inside run().  Emitting a signal
\* queues the record and returns: the callback does not raise.
ThreadStep ==
    /\ gui.thread = "running"
    /\ Next
    /\ total_files' <= MaxGuiFiles
    /\ cbLog' # cbLog => ~cbLog'[Len(cbLog')].raised

\* Lines 676 and 686-694: what processing_finished is emitted with.
FinishedResults ==
    IF pc = "returned"
    THEN [k \in DOMAIN result \cup {"total_time"} |->
             IF k = "total_time" THEN "seconds" ELSE result[k]]
    ELSE [error |-> "Processing failed: " \o result.raised,
          successful_processed |-> 0, failed_processed |-> 0, total_files |-> 0,
          total_time |-> 0, total_abnormal |-> 0, total_normal |-> 0]

\* run() with the emit of line 678 repeated in a finally clause.
EmitFinishedAgain ==
    /\ gui.thread = "running"
    /\ pc \in {"returned", "raised"}
    /\ Len(gui.finished) < 2
    /\ gui' = [gui EXCEPT !.finished = Append(@, FinishedResults)]
    /\ UNCHANGED <<disk, threads>>
    /\ UNCHANGED unitVars
    /\ UNCHANGED batchVars

\* Lines 674-678 and 680-695: process_folder has returned or raised, run()
\* emits processing_finished and ends.
EmitFinished ==
    /\ gui.thread = "running"
    /\ pc \in {"returned", "raised"}
    /\ gui' = [gui EXCEPT !.finished = Append(@, FinishedResults),
                          !.thread = "finished"]
    /\ UNCHANGED <<disk, threads>>
    /\ UNCHANGED unitVars
    /\ UNCHANGED batchVars

\* MainWindow.update_progress (lines 1167-1187).
UpdateProgress(g, progress_data) ==
    IF "current" \in DOMAIN progress_data /\ "total" \in DOMAIN progress_data
    THEN LET current == progress_data["current"]
             total == progress_data["total"]
         IN  [g EXCEPT !.progress_bar = [maximum |-> total, value |-> current],
                       !.progress_text = [current |-> current, total |-> total],
                       !.process_status = "Processing (current/total)"]
    ELSE g

\* MainWindow.processing_complete (lines 1189-1220).
ProcessingComplete(g, results) ==
    LET shown == IF "error" \in DOMAIN results
                 THEN [g EXCEPT !.message_box = "Processing Error"]
                 ELSE [g EXCEPT !.message_box = "Processing Complete",
                                !.process_status = "Completed"]
    IN  [shown EXCEPT !.progress_bar.value = 0]

\* The main thread handles the next queued signal.
DeliverSignal ==
    /\ gui.delivered < Len(cbLog) + Len(gui.finished)
    /\ LET k == gui.delivered + 1
           handled == IF k <= Len(cbLog)
                      THEN UpdateProgress(gui, cbLog[k].record)
                      ELSE ProcessingComplete(gui, gui.finished[k - Len(cbLog)])
       IN  gui' = [handled EXCEPT !.delivered = k]
    /\ UNCHANGED <<disk, threads>>
    /\ UNCHANGED unitVars
    /\ UNCHANGED batchVars

NextGui == ThreadStep \/ EmitFinished \/ DeliverSignal

SpecGui == InitGui /\ [][NextGui]_vars

\* The thread is scheduled until run() ends.
SpecGuiLive == SpecGui /\ WF_vars(ThreadStep \/ EmitFinished)

\* C23: every progress record of process_folder delivered through
\* progress_update makes update_progress set the progress bar and the
\* "N of M images processed" text to the record's processed and total.
ProgressRecordShown ==
    (gui.delivered >= 1 /\ gui.delivered <= Len(cbLog)) =>
       LET record == cbLog[gui.delivered].record
       IN  /\ gui.progress_bar = [maximum |-> record.total, value |-> record.processed]
           /\ gui.progress_text = [current |-> record.processed, total |-> record.total]

\* C25: every run of ProcessingThread emits processing_finished exactly
\* once, with the result of process_folder when it returned and with an
\* error result with zeroed counters when it raised, and emits no
\* progress_update after processing_finished.
FinishedEmittedOnce ==
    /\ [](Len(gui.finished) <= 1)
    /\ [](gui.finished # <<>> =>
            IF pc = "returned"
            THEN \A k \in DOMAIN result \ {"total_time"} :
                    gui.finished[1][k] = result[k]
            ELSE /\ pc = "raised"
                 /\ "error" \in DOMAIN gui.finished[1]
                 /\ gui.finished[1].successful_processed = 0
                 /\ gui.finished[1].failed_processed = 0
                 /\ gui.finished[1].total_files = 0)
    /\ [][gui.finished # <<>> => cbLog' = cbLog]_vars
    /\ <>(Len(gui.finished) = 1)

\* A run over two files that emitted two progress records and then
\* processing_finished with the result, all of them handled by the window.
RunFinishedAfterTwoRecords ==
    /\ pc = "returned"
    /\ Len(cbLog) = 2
    /\ Len(gui.finished) = 1
    /\ gui.finished[1].total_files = 2
    /\ gui.delivered = 3

=============================================================================
